---- MODULE Spec2Model ----
(***************************************************************************)
(* Model of pulp_dev.releng_utils.EVR (epoch/version/release values):      *)
(* construction from strings, the regex-based parsers, string formatting,  *)
(* comparison and the increment operation.                                 *)
(*                                                                         *)
(* Python strings are sequences of one-character strings.  Python None is  *)
(* the one-element sequence None, which no Python string can equal.        *)
(***************************************************************************)
EXTENDS Integers, Sequences, FiniteSets, TLC

\* ------------------------------------------------------------------ bounds
\* number of times the caller replaces the instance it holds by the result of
\* an increment
MaxGen == 1

\* longest version string handed to the constructor when parsing is exercised
MaxVerLen == 5

\* ------------------------------------------------------- python primitives
None == <<"None">>

\* truth value of an optional string: None and '' are false
Truthy(s) == s # None /\ s # <<>>

DigitChars == <<"0", "1", "2", "3", "4", "5", "6", "7", "8", "9">>

IsDigit(c) == \E i \in 1..10 : DigitChars[i] = c

DigitVal(c) == (CHOOSE i \in 1..10 : DigitChars[i] = c) - 1

\* int(s) for a string of decimal digits
RECURSIVE StrToInt(_)
StrToInt(s) ==
    IF Len(s) = 0 THEN 0
    ELSE 10 * StrToInt(SubSeq(s, 1, Len(s) - 1)) + DigitVal(s[Len(s)])

\* str(n) / '{}'.format(n) for a non-negative int
RECURSIVE IntToStr(_)
IntToStr(n) ==
    IF n < 10 THEN <<DigitChars[n + 1]>>
    ELSE IntToStr(n \div 10) \o <<DigitChars[(n % 10) + 1]>>

\* code points of the characters the model uses, for str < str
CharOrder ==
    <<"!", "%", "-", ".", "0", "1", "2", "3", "4", "5", "6", "7", "8", "9", ":",
      "?", "a", "b", "c", "d", "e", "f", "g", "h", "i", "l", "n", "o", "p", "r",
      "s", "t", "v", "x", "{", "}">>

Ord(c) == CHOOSE i \in 1..Len(CharOrder) : CharOrder[i] = c

\* Python's s < t on strings: lexicographic by code point, a proper prefix is less
RECURSIVE StrLt(_, _)
StrLt(s, t) ==
    IF Len(t) = 0 THEN FALSE
    ELSE IF Len(s) = 0 THEN TRUE
    ELSE IF s[1] # t[1] THEN Ord(s[1]) < Ord(t[1])
    ELSE StrLt(Tail(s), Tail(t))

\* length of the longest run of digits of s that starts at position i
RECURSIVE DigitRun(_, _)
DigitRun(s, i) ==
    IF i > Len(s) \/ ~IsDigit(s[i]) THEN 0 ELSE 1 + DigitRun(s, i + 1)

CharAt(s, i) == IF i >= 1 /\ i <= Len(s) THEN s[i] ELSE ""

\* ---------------------------------------------------------------- regexen
\* re.match(EVR_VERSION_RE, s):
\*   (?P<epoch>\d+)?(?:\:?)(?P<major>\d+)\.(?P<minor>\d+)(?:\.?)(?P<patch>\d+)?
\* anchored at the start only; ok is false when there is no match (re.match
\* returns None).  A candidate is the number of digits taken by
\* epoch (0: group skipped), whether the colon is consumed, and the number of
\* digits taken by major; everything after minor is optional and greedy.
VersionCandidates(s) ==
    LET run == DigitRun(s, 1)
    IN  { t \in [k : 0..run, c : 0..1, m : 1..Len(s)] :
            /\ t.c = 1 => CharAt(s, t.k + 1) = ":"
            /\ t.m <= DigitRun(s, t.k + t.c + 1)
            /\ CharAt(s, t.k + t.c + t.m + 1) = "."
            /\ DigitRun(s, t.k + t.c + t.m + 2) >= 1 }

\* backtracking order: longer epoch first, colon consumed first, longer major first
VersionPrio(t, len) == (t.k * 2 + t.c) * (len + 1) + t.m

\* the candidate the backtracking search reaches first
FirstCandidate(C, len) ==
    CHOOSE x \in C : \A y \in C : VersionPrio(x, len) >= VersionPrio(y, len)

EVR_VERSION_RE(s) ==
    LET groups(t) ==
          LET p1 == t.k + t.c + 1                  \* start of major
              p2 == t.k + t.c + t.m + 2            \* start of minor
          IN  LET tail(n) ==
                    LET p3 == p2 + n               \* after minor
                        p4 == IF CharAt(s, p2 + n) = "." THEN p2 + n + 1 ELSE p2 + n
                    IN  LET last(q) ==
                              [ok    |-> TRUE,
                               epoch |-> IF t.k = 0 THEN None ELSE SubSeq(s, 1, t.k),
                               major |-> SubSeq(s, p1, p1 + t.m - 1),
                               minor |-> SubSeq(s, p2, p3 - 1),
                               patch |-> IF q = 0 THEN None
                                         ELSE SubSeq(s, p4, p4 + q - 1),
                               end   |-> p4 + q - 1]
                        IN  last(DigitRun(s, p4))
              IN  tail(DigitRun(s, p2))
        match(C) ==
          IF C = {}
          THEN [ok |-> FALSE, epoch |-> None, major |-> None, minor |-> None,
                patch |-> None, end |-> 0]
          ELSE groups(FirstCandidate(C, Len(s)))
    IN  match(VersionCandidates(s))

\* the longest prefix of r that .+[^.] matches: at least two characters, the
\* last one not a dot; 0 when there is none
RECURSIVE LastNonDot(_, _)
LastNonDot(r, j) ==
    IF j < 2 THEN 0 ELSE IF r[j] # "." THEN j ELSE LastNonDot(r, j - 1)

StageLen(r) == LastNonDot(r, Len(r))

\* re.match(EVR_RELEASE_RE, s):
\*   (?P<major>\d+)(?:\.?)(?P<minor>\d+)?(?:\.?)(?P<stage>.+[^.])?
\* every quantifier is greedy and everything after major is optional, so the
\* first attempt succeeds whenever s starts with a digit
EVR_RELEASE_RE(s) ==
    LET groups(m) ==
          LET p1 == IF CharAt(s, m + 1) = "." THEN m + 2 ELSE m + 1
          IN  LET tail(n) ==
                    LET p2 == p1 + n
                        p3 == IF CharAt(s, p1 + n) = "." THEN p1 + n + 1 ELSE p1 + n
                    IN  LET last(st) ==
                              [ok    |-> TRUE,
                               major |-> SubSeq(s, 1, m),
                               minor |-> IF n = 0 THEN None ELSE SubSeq(s, p1, p2 - 1),
                               stage |-> IF st = 0 THEN None
                                         ELSE SubSeq(s, p3, p3 + st - 1),
                               end   |-> IF st = 0 THEN p3 - 1 ELSE p3 + st - 1]
                        IN  last(StageLen(SubSeq(s, p3, Len(s))))
              IN  tail(DigitRun(s, p1))
    IN  IF DigitRun(s, 1) = 0
        THEN [ok |-> FALSE, major |-> None, minor |-> None, stage |-> None, end |-> 0]
        ELSE groups(DigitRun(s, 1))

\* ------------------------------------------------------------- EVR values
PYTHON_STAGE_MAP == { <<"a", "l", "p", "h", "a">>, <<"b", "e", "t", "a">>, <<"r", "c">> }

ValueError_nightly == "ValueError: Cannot create nightly EVR without commit hash."
ValueError_invalid == "ValueError: Invalid version string."
ValueError_major0  == "ValueError: Release major version must be 0 if stage is not release."
ValueError_major1  == "ValueError: Release major version must be greater than 0 if stage is release."
ValueError_stage   == "ValueError: Unknown self.r_stage"
ValueError_unpack  == "ValueError: need more than 1 value to unpack"

\* an object whose fields were never assigned (the constructor raised)
NoEVR ==
    [epoch |-> 0, v_major |-> 0, v_minor |-> 0, v_patch |-> 0,
     r_major |-> 0, r_minor |-> 0, r_stage |-> None, commit |-> None]

\* EVR.version
version(e) ==
    LET v == IntToStr(e.v_major) \o <<".">> \o IntToStr(e.v_minor) \o <<".">>
             \o IntToStr(e.v_patch)
    IN  IF e.epoch # 0 THEN IntToStr(e.epoch) \o <<":">> \o v ELSE v

\* EVR.release
release(e) ==
    IF Truthy(e.r_stage)
    THEN IntToStr(e.r_major) \o <<".">> \o IntToStr(e.r_minor) \o <<".">> \o e.r_stage
    ELSE IF e.r_minor # 0
         THEN IntToStr(e.r_major) \o <<".">> \o IntToStr(e.r_minor)
         ELSE IntToStr(e.r_major)

\* EVR.__str__
EVR_str(e) == version(e) \o <<"-">> \o release(e)

\* EVR.nightly_release
nightly_release(e) == Truthy(e.r_stage) /\ e.r_stage[1] = "n"

\* str.replace(':', '!')
ReplaceColon(s) == [i \in 1..Len(s) |-> IF s[i] = ":" THEN "!" ELSE s[i]]

\* EVR._PYTHON_STAGE_MAP[stage]
PythonStage(stage) ==
    IF stage = <<"a", "l", "p", "h", "a">> THEN <<"a">>
    ELSE IF stage = <<"b", "e", "t", "a">> THEN <<"b">>
    ELSE <<"r", "c">>

KeyError == "KeyError"

\* EVR.python_version: the version with ':' replaced by '!' and a zero patch
\* cut off, then the suffix chosen by the release
python_version(e) ==
    LET suffix(v) ==
          IF Truthy(e.r_stage)
          THEN IF nightly_release(e)
               THEN [err |-> "",
                     val |-> v \o <<"d", "e", "v">> \o SubSeq(e.r_stage, 2, Len(e.r_stage))]
               ELSE IF e.r_stage \in PYTHON_STAGE_MAP
               THEN [err |-> "", val |-> v \o PythonStage(e.r_stage) \o IntToStr(e.r_minor)]
               ELSE [err |-> KeyError, val |-> <<>>]
          ELSE IF e.r_major > 1
          THEN [err |-> "", val |-> v \o <<".", "p", "o", "s", "t">> \o IntToStr(e.r_major)]
          ELSE [err |-> "", val |-> v]
        cut(v) == IF e.v_patch = 0 THEN SubSeq(v, 1, Len(v) - 2) ELSE v
    IN  suffix(cut(ReplaceColon(version(e))))

\* _build_nightly_release keeping the whole commit hash
build_nightly_release_full(commit, buildtime) ==
    <<"0", ".", "0", ".", "n">> \o buildtime \o <<"g", "i", "t">> \o commit

\* EVR._build_nightly_release; buildtime is time.strftime('%Y%m%d%H%M')
build_nightly_release(commit, buildtime) ==
    <<"0", ".", "0", ".", "n">> \o buildtime \o <<"g", "i", "t">>
        \o SubSeq(commit, 1, IF Len(commit) < 7 THEN Len(commit) ELSE 7)

\* EVR.parse_version; a failed match is the AttributeError __init__ catches
parse_version(s) ==
    LET groups(m) ==
          IF ~m.ok
          THEN [err |-> "AttributeError", epoch |-> 0, major |-> 0, minor |-> 0,
                patch |-> 0]
          ELSE [err   |-> "",
                epoch |-> IF m.epoch = None THEN 0 ELSE StrToInt(m.epoch),
                major |-> StrToInt(m.major),
                minor |-> StrToInt(m.minor),
                patch |-> IF m.patch = None THEN 0 ELSE StrToInt(m.patch)]
    IN  groups(EVR_VERSION_RE(s))

\* the test  major != '0'  of parse_release: major is an int by then, and an
\* int never equals a str
IntNeStr(i, s) == TRUE

\* EVR.parse_release
parse_release(s) ==
    LET bad(e) == [err |-> e, major |-> 0, minor |-> 0, stage |-> None]
        check(major, minor, stage) ==
          IF Truthy(stage) /\ IntNeStr(major, <<"0">>)
          THEN IF stage \in PYTHON_STAGE_MAP
               THEN bad(ValueError_major0)
               ELSE [err |-> "", major |-> major, minor |-> minor, stage |-> stage]
          ELSE IF ~Truthy(stage) /\ major < 1
               THEN bad(ValueError_major1)
               ELSE [err |-> "", major |-> major, minor |-> minor, stage |-> stage]
        groups(m) ==
          IF ~m.ok THEN bad("AttributeError")
          ELSE check(StrToInt(m.major),
                     IF m.minor = None THEN 0 ELSE StrToInt(m.minor), m.stage)
    IN  groups(EVR_RELEASE_RE(s))

\* EVR.__init__(version, release, commit_hash); buildtime is the clock reading
\* a nightly release is stamped with
EVR_init(ver, rel, commit_hash, buildtime) ==
    LET raise(e) == [err |-> e, obj |-> NoEVR]
        fields(v, r) ==
          IF v.err = "AttributeError" THEN raise(ValueError_invalid)
          ELSE IF r.err = "AttributeError" THEN raise(ValueError_invalid)
          ELSE IF r.err # "" THEN raise(r.err)
          ELSE [err |-> "",
                obj |-> [epoch |-> v.epoch, v_major |-> v.major,
                         v_minor |-> v.minor, v_patch |-> v.patch,
                         r_major |-> r.major, r_minor |-> r.minor,
                         r_stage |-> r.stage, commit |-> commit_hash]]
    IN  IF rel = <<"n", "i", "g", "h", "t", "l", "y">> /\ commit_hash = None
        THEN raise(ValueError_nightly)
        ELSE fields(parse_version(ver),
                    parse_release(IF rel = <<"n", "i", "g", "h", "t", "l", "y">>
                                  THEN build_nightly_release(commit_hash, buildtime)
                                  ELSE rel))

\* position of the last '-' of s, 0 when there is none
RECURSIVE LastIndexOf(_, _, _)
LastIndexOf(s, c, i) ==
    IF i = 0 THEN 0 ELSE IF s[i] = c THEN i ELSE LastIndexOf(s, c, i - 1)

\* EVR.fromstring: evr_string.rsplit('-', 1) must give two parts
fromstring(s) ==
    LET split(d) ==
          IF d = 0 THEN [err |-> ValueError_unpack, obj |-> NoEVR]
          ELSE EVR_init(SubSeq(s, 1, d - 1), SubSeq(s, d + 1, Len(s)), None, <<>>)
    IN  split(LastIndexOf(s, "-", Len(s)))

\* EVR.lowest: cls('0.0', '0')
lowest == EVR_init(<<"0", ".", "0">>, <<"0">>, None, <<>>)

\* ------------------------------------------------------------ comparison
\* EVR.__eq__: equality of the string forms
EVR_eq(a, b) == EVR_str(a) = EVR_str(b)

\* the loop of EVR.__lt__ over ('epoch', 'v_major', 'v_minor', 'v_patch',
\* 'r_major', 'r_minor'): it returns True at the first component of self that
\* is less than other's, and goes on to the next component otherwise
ComponentLess(a, b) ==
    \/ a.epoch < b.epoch
    \/ a.v_major < b.v_major
    \/ a.v_minor < b.v_minor
    \/ a.v_patch < b.v_patch
    \/ a.r_major < b.r_major
    \/ a.r_minor < b.r_minor

\* StageLess with the two None branches exchanged: a missing stage sorts first
StageLess_NoneLeast(a, b) ==
    IF a.r_stage # b.r_stage
    THEN IF a.r_stage = None THEN TRUE
         ELSE IF b.r_stage = None THEN FALSE
         ELSE IF a.r_stage[1] = "n" /\ ~(b.r_stage[1] = "n") THEN TRUE
         ELSE IF b.r_stage[1] = "n" /\ ~(a.r_stage[1] = "n") THEN FALSE
         ELSE StrLt(a.r_stage, b.r_stage)
    ELSE FALSE

\* the stage handling of EVR.__lt__, reached when the loop returned nothing
StageLess(a, b) ==
    IF a.r_stage # b.r_stage
    THEN IF a.r_stage = None THEN FALSE
         ELSE IF b.r_stage = None THEN TRUE
         ELSE IF a.r_stage[1] = "n" /\ ~(b.r_stage[1] = "n") THEN TRUE
         ELSE IF b.r_stage[1] = "n" /\ ~(a.r_stage[1] = "n") THEN FALSE
         ELSE StrLt(a.r_stage, b.r_stage)
    ELSE FALSE

\* EVR.__lt__
EVR_lt(a, b) == IF ComponentLess(a, b) THEN TRUE ELSE StageLess(a, b)

\* functools.total_ordering: __gt__, __le__ and __ge__ from __lt__ and __eq__
EVR_gt(a, b) == ~(EVR_lt(a, b) \/ EVR_eq(a, b))

EVR_le(a, b) == EVR_lt(a, b) \/ EVR_eq(a, b)

EVR_ge(a, b) == ~EVR_lt(a, b)

\* ------------------------------------------------------------- increment
\* EVR.next_stage
next_stage(e) ==
    IF e.r_stage = None \/ (Len(e.r_stage) > 0 /\ e.r_stage[1] = "n")
    THEN [err |-> "", val |-> <<"a", "l", "p", "h", "a">>]
    ELSE IF e.r_stage = <<"a", "l", "p", "h", "a">>
    THEN [err |-> "", val |-> <<"b", "e", "t", "a">>]
    ELSE IF e.r_stage = <<"b", "e", "t", "a">>
    THEN [err |-> "", val |-> <<"r", "c">>]
    ELSE IF e.r_stage = <<"r", "c">>
    THEN [err |-> "", val |-> None]
    ELSE [err |-> ValueError_stage, val |-> None]

\* copy returning the receiver itself instead of a new instance
copy_alias(h, self) == [err |-> "", h |-> h, id |-> self]

\* EVR.copy on a heap h of instances: a new instance built from the string
\* forms of h[self]; id is the identity of the instance returned
copy(h, self) ==
    LET alloc(c) == [err |-> c.err, h |-> Append(h, c.obj), id |-> Len(h) + 1]
    IN  alloc(EVR_init(version(h[self]), release(h[self]), None, <<>>))

\* EVR.increment(major, minor, patch, release, stage, next_stage) called on
\* the instance self; a is the record of the six arguments.  recv is the
\* receiver as the call leaves it, obj the instance returned, and same tells
\* whether the instance returned is the receiver itself.
increment(self, a) ==
    LET body(c) ==
          LET stages(ns) ==
                LET rel == IF ns.val = None THEN TRUE ELSE a.release
                    \* if any((major, minor, patch)): the release is reset
                    reset(h) ==
                      IF a.major \/ a.minor \/ a.patch
                      THEN [h EXCEPT ![c.id].r_major = IF rel THEN 1 ELSE 0,
                                     ![c.id].r_minor = IF rel THEN 0 ELSE 1,
                                     ![c.id].r_stage = ns.val]
                      ELSE h
                    bump(h) ==
                      IF a.major
                      THEN [h EXCEPT ![c.id].v_major = @ + 1,
                                     ![c.id].v_minor = 0,
                                     ![c.id].v_patch = 0]
                      ELSE IF a.minor
                      THEN [h EXCEPT ![c.id].v_minor = @ + 1, ![c.id].v_patch = 0]
                      ELSE IF a.patch
                      THEN [h EXCEPT ![c.id].v_patch = @ + 1]
                      ELSE IF Truthy(ns.val)
                      THEN [h EXCEPT ![c.id].r_major = 0,
                                     ![c.id].r_minor = @ + 1,
                                     ![c.id].r_stage = IF a.stage THEN ns.val ELSE @]
                      ELSE h
                    done(h) ==
                      [err |-> "", recv |-> h[1], obj |-> h[c.id], same |-> c.id = 1]
                IN  IF ns.err # ""
                    THEN [err |-> ns.err, recv |-> c.h[1], obj |-> NoEVR, same |-> FALSE]
                    ELSE done(bump(reset(c.h)))
          IN  IF c.err # ""
              THEN [err |-> c.err, recv |-> self, obj |-> NoEVR, same |-> FALSE]
              ELSE stages(IF a.next_stage = None
                          THEN IF a.stage THEN next_stage(c.h[c.id])
                               ELSE IF a.release THEN [err |-> "", val |-> None]
                               ELSE [err |-> "", val |-> c.h[c.id].r_stage]
                          ELSE [err |-> "", val |-> a.next_stage])
    IN  body(copy(<<self>>, 1))

\* ------------------------------------------------------------ git workflow
\* str.strip() of blanks
RECURSIVE Strip(_)
Strip(s) ==
    IF s # <<>> /\ s[1] = " " THEN Strip(Tail(s))
    ELSE IF s # <<>> /\ s[Len(s)] = " " THEN Strip(SubSeq(s, 1, Len(s) - 1))
    ELSE s

\* t occurs in s at position i
HasAt(s, i, t) == i + Len(t) - 1 <= Len(s) /\ SubSeq(s, i, i + Len(t) - 1) = t

\* the ways "(?P<version>\d+.\d+)-(?P<stream>dev|release)" matches inside s:
\* the match starts at i, the first \d+ takes a digits, the '.' takes any one
\* character, the second \d+ takes b digits, and -dev or -release follows
BranchCandidates(s) ==
    UNION { UNION { { [i |-> i, a |-> a, b |-> b] :
                        b \in { y \in 1..DigitRun(s, i + a + 1) :
                                  \/ HasAt(s, i + a + 1 + y, <<"-", "d", "e", "v">>)
                                  \/ HasAt(s, i + a + 1 + y, <<"-", "r", "e", "l", "e", "a", "s", "e">>) } } :
                    a \in { x \in 1..DigitRun(s, i) : i + x <= Len(s) } } :
            i \in 1..Len(s) }

\* re.search order: leftmost start first, then the longer first \d+, then the
\* longer second \d+
BranchPrio(t, len) == ((len - t.i) * (len + 1) + t.a) * (len + 1) + t.b

\* re.search(branch_regex, s) and its groupdict
branch_regex(s) ==
    LET groups(t) ==
          [ok |-> TRUE,
           version |-> SubSeq(s, t.i, t.i + t.a + t.b),
           stream |-> IF HasAt(s, t.i + t.a + t.b + 1, <<"-", "d", "e", "v">>)
                      THEN "dev" ELSE "release"]
        match(C) ==
          IF C = {}
          THEN [ok |-> FALSE, version |-> None, stream |-> "none"]
          ELSE groups(CHOOSE x \in C :
                        \A y \in C : BranchPrio(x, Len(s)) >= BranchPrio(y, Len(s)))
    IN  match(BranchCandidates(s))

\* version.split('.', 1)[0]
split_major(v) ==
    IF \E i \in 1..Len(v) : v[i] = "."
    THEN SubSeq(v, 1, (CHOOSE k \in 1..Len(v) :
                         v[k] = "." /\ \A j \in 1..(k - 1) : v[j] # ".") - 1)
    ELSE v

\* distutils LooseVersion(v).version: the runs of digits as ints <<0, n>>, the
\* dots dropped, any other character as a string <<1, code point>> (a version
\* the regex matched holds one character between its two runs of digits)
RECURSIVE LooseVersion(_)
LooseVersion(v) ==
    IF v = <<>> THEN <<>>
    ELSE IF IsDigit(v[1])
    THEN <<<<0, StrToInt(SubSeq(v, 1, DigitRun(v, 1)))>>>>
             \o LooseVersion(SubSeq(v, DigitRun(v, 1) + 1, Len(v)))
    ELSE IF v[1] = "." THEN LooseVersion(Tail(v))
    ELSE <<<<1, Ord(v[1])>>>> \o LooseVersion(Tail(v))

\* x < y for two component lists (Python 2: an int is less than any str, a
\* proper prefix is less)
RECURSIVE LooseLt(_, _)
LooseLt(x, y) ==
    IF y = <<>> THEN FALSE
    ELSE IF x = <<>> THEN TRUE
    ELSE IF x[1] # y[1]
    THEN x[1][1] < y[1][1] \/ (x[1][1] = y[1][1] /\ x[1][2] < y[1][2])
    ELSE LooseLt(Tail(x), Tail(y))

\* the target test without the comparison of the major versions
is_target_any_major(branch_version, source_branch_version) ==
    LooseLt(LooseVersion(source_branch_version), LooseVersion(branch_version))

\* LooseVersion(branch_version) > LooseVersion(source_branch_version) and
\* branch_major == source_branch_major
is_target(branch_version, source_branch_version) ==
    /\ LooseLt(LooseVersion(source_branch_version), LooseVersion(branch_version))
    /\ split_major(branch_version) = split_major(source_branch_version)

\* sorted(S) with no key: the versions ordered as strings
SortedOrders_unkeyed(S) ==
    { o \in [1..Cardinality(S) -> S] :
        \A i, j \in 1..Cardinality(S) : i < j => StrLt(o[i], o[j]) }

\* sorted(S, key=LooseVersion): every order of S that is ascending; versions
\* that compare equal come in the order the set happens to yield them
SortedOrders(S) ==
    { o \in [1..Cardinality(S) -> S] :
        /\ \A i, j \in 1..Cardinality(S) : i # j => o[i] # o[j]
        /\ \A i, j \in 1..Cardinality(S) :
             i < j => ~LooseLt(LooseVersion(o[j]), LooseVersion(o[i])) }

\* master appended whatever skip_master says
chain_tail_always(skip_master) == <<<<"m", "a", "s", "t", "e", "r">>>>

\* if not skip_master: promotion_chain.append('master')
chain_tail(skip_master) == IF skip_master THEN <<>> ELSE <<<<"m", "a", "s", "t", "e", "r">>>>

AttributeError_format == "AttributeError: 'ValueError' object has no attribute 'format'"

SystemExit == "SystemExit: 1"

\* promotion_chain(git_directory, commit_ref, parent_branch, skip_master), lines
\* being the output of git branch -r in git_directory: the set of the outcomes
\* the call can have (one per order sorted() can give the targets)
promotion_chain(lines, commit_ref, parent_branch, skip_master) ==
    LET from(start) ==
          LET forward(m) ==
                LET chain1 == IF m.stream = "release"
                              THEN Append(start, m.version \o <<"-", "d", "e", "v">>)
                              ELSE start
                    all_branches ==
                      { x.version : x \in { y \in { branch_regex(Strip(l)) : l \in lines } : y.ok } }
                IN  LET targets(T) ==
                          IF T \ all_branches # {}
                          THEN { [err |-> SystemExit, val |-> <<>>] }
                          ELSE { [err |-> "",
                                  val |-> [i \in 1..(Len(chain1) + Cardinality(T)
                                                        + Len(chain_tail(skip_master))) |->
                                             <<"o", "r", "i", "g", "i", "n", "/">> \o
                                             (chain1 \o [k \in 1..Cardinality(T) |-> o[k] \o <<"-", "d", "e", "v">>]
                                                     \o chain_tail(skip_master))[i]]] :
                                 o \in SortedOrders(T) }
                    IN  targets({ v \in all_branches : is_target(v, m.version) })
          IN  IF ~branch_regex(start[Len(start)]).ok
              THEN { [err |-> AttributeError_format, val |-> <<>>] }
              ELSE forward(branch_regex(start[Len(start)]))
        strip(ref) ==
          IF ref = <<"m", "a", "s", "t", "e", "r">>
          THEN { [err |-> "", val |-> <<<<"m", "a", "s", "t", "e", "r">>>>] }
          ELSE from(IF Truthy(parent_branch) THEN <<ref, parent_branch>> ELSE <<ref>>)
    IN  strip(Strip(commit_ref))

\* ------------------------------------------------------- building in Copr
\* copr_seen_packages[copr_project][dist][package_name] of a
\* defaultdict(... defaultdict(EVR.lowest)): a key that is missing is filled
\* with EVR.lowest(); seen maps the keys <<dist, package_name>> that are filled
seen_lookup(seen, key) ==
    IF key \in DOMAIN seen
    THEN [err |-> "", seen |-> seen, val |-> seen[key]]
    ELSE LET fill(l) ==
               IF l.err # "" THEN [err |-> l.err, seen |-> seen, val |-> NoEVR]
               ELSE [err |-> "", seen |-> (key :> l.obj) @@ seen, val |-> l.obj]
         IN  fill(lowest)

\* the loop of build_rpms over project.get_builds().builds from build i on
RECURSIVE seen_builds(_, _, _)
seen_builds(builds, i, seen) ==
    IF i > Len(builds) THEN [err |-> "", seen |-> seen]
    ELSE IF builds[i].state # "succeeded" THEN seen_builds(builds, i + 1, seen)
    ELSE LET pv == builds[i].package_version
             raise(e) == [err |-> e, seen |-> seen]
             split(d) ==
               IF d = 0 THEN raise(ValueError_unpack)
               ELSE LET key == <<SubSeq(pv, d + 1, Len(pv)), builds[i].package_name>>
                        keep(evr) ==
                          IF evr.err # "" THEN raise(evr.err)
                          ELSE LET cmp(look) ==
                                     IF look.err # "" THEN raise(look.err)
                                     ELSE IF EVR_lt(look.val, evr.obj)
                                     THEN seen_builds(builds, i + 1,
                                              [look.seen EXCEPT ![key] = evr.obj])
                                     ELSE seen_builds(builds, i + 1, look.seen)
                               IN  cmp(seen_lookup(seen, key))
                    IN  keep(fromstring(SubSeq(pv, 1, d - 1)))
         IN  split(LastIndexOf(pv, ".", Len(pv)))

\* build_rpms(..., use_copr=True) for one Copr project, one platform and one
\* package name with the given version and release; srpm tells whether the
\* SRPM file is there.  submitted: create_build_from_file went through.
build_rpms(builds, platform, name, ver, rel, srpm) ==
    LET raise(e) == [err |-> e, submitted |-> FALSE]
        packages(b) ==
          IF b.err # "" THEN raise(b.err)
          ELSE LET build(evr) ==
                     IF evr.err # "" THEN raise(evr.err)
                     ELSE LET dup(look) ==
                                IF look.err # "" THEN raise(look.err)
                                ELSE [err |-> "",
                                      submitted |-> EVR_ge(look.val, evr.obj) /\ srpm]
                          IN  dup(seen_lookup(b.seen, <<platform, name>>))
               IN  build(EVR_init(ver, rel, None, <<>>))
    IN  packages(seen_builds(builds, 1, <<>>))

\* --------------------------------------------------------- merging forward
StopIteration == "StopIteration"

RuntimeError_unmerged == "RuntimeError: ERROR: in {}: branch {} has not been merged into {}"

\* zip(a, b): pairs up to the end of the shorter one
Zip(a, b) ==
    [i \in 1..(IF Len(a) < Len(b) THEN Len(a) ELSE Len(b)) |-> <<a[i], b[i]>>]

\* tee, then zip(src, dest) with dest not advanced
generate_promotion_pairs_unadvanced(c) == [err |-> "", val |-> Zip(c, c)]

\* generate_promotion_pairs: tee(promotion_chain), next(dest), zip(src, dest)
generate_promotion_pairs(c) ==
    IF c = <<>> THEN [err |-> StopIteration, val |-> <<>>]
    ELSE [err |-> "", val |-> Zip(c, Tail(c))]

\* git log "^src" "dest"
git_log_swapped(U, src, dest) == <<dest, src>> \in U

\* git log "^dest" "src" prints something: U holds the pairs (src, dest)
\* for which src has commits that dest has not
git_log(U, src, dest) == <<src, dest>> \in U

\* the loop of check_merge_forward from pair i on; queried are the pairs for
\* which git log has been run
RECURSIVE check_loop(_, _, _)
check_loop(U, pairs, i) ==
    IF i > Len(pairs)
    THEN [err |-> "", pair |-> <<>>, queried |-> pairs]
    ELSE IF git_log(U, pairs[i][1], pairs[i][2])
    THEN [err |-> RuntimeError_unmerged, pair |-> pairs[i],
          queried |-> SubSeq(pairs, 1, i)]
    ELSE check_loop(U, pairs, i + 1)

\* check_merge_forward(git_directory, promotion_chain)
check_merge_forward(U, c) ==
    LET run(g) ==
          IF g.err # "" THEN [err |-> g.err, pair |-> <<>>, queried |-> <<>>,
                              pairs |-> <<>>]
          ELSE LET done(r) == [err |-> r.err, pair |-> r.pair,
                               queried |-> r.queried, pairs |-> g.val]
               IN  done(check_loop(U, g.val, 1))
    IN  run(generate_promotion_pairs(c))

\* ------------------------------------------------------------- the state
VARIABLES
    held,   \* the EVR instances the caller holds (one; two when comparing)
    trail,  \* the receivers of the increments that led to held[1], oldest first
    ret,    \* the last call: its arguments and its outcome
    remote, \* the lines git branch -r prints in git_directory
    chain,  \* the last promotion_chain call: its arguments and its outcome
    merge,  \* the last check_merge_forward call: what git log answers, its outcome
    copr    \* the last build_rpms call: the builds Copr lists, the package, its outcome

vars == <<held, trail, ret, remote, chain, merge, copr>>

alpha == <<"a", "l", "p", "h", "a">>
beta  == <<"b", "e", "t", "a">>
rc    == <<"r", "c">>

\* version strings handed to the constructor
Versions ==
    { <<"1", ".", "2", ".", "3">>,
      <<"9", ".", "9">>,
      <<"2", ":", "1", ".", "2", ".", "3">>,
      <<"1", "0", ".", "0", ".", "1">>,
      <<"1">> }

\* release strings handed to the constructor
Releases ==
    { <<"1">>,
      <<"2", ".", "1">>,
      <<"0">>,
      <<"0", ".", "1", ".", "a", "l", "p", "h", "a">>,
      <<"1", ".", "1", ".", "b", "e", "t", "a">>,
      <<"n", "i", "g", "h", "t", "l", "y">> }

\* commit hashes handed to the constructor
Commits == { None, <<"a", "b", "c", "d", "e", "f", "0", "1", "2", "3">> }

\* readings of time.strftime('%Y%m%d%H%M')
BuildTimes == { <<"2", "0", "1", "6", "1", "1", "0", "3", "0", "1", "0", "1">> }

\* values of the next_stage argument of increment
NextStages == { None, alpha, beta, rc }

IncrementArgs ==
    [major : BOOLEAN, minor : BOOLEAN, patch : BOOLEAN, release : BOOLEAN,
     stage : BOOLEAN, next_stage : NextStages]

NoArgs ==
    [major |-> FALSE, minor |-> FALSE, patch |-> FALSE, release |-> FALSE,
     stage |-> FALSE, next_stage |-> None]

Idle ==
    [op |-> "none", args |-> NoArgs, in |-> <<>>, err |-> "",
     obj |-> NoEVR, recv |-> NoEVR, same |-> FALSE, out |-> <<>>,
     lt |-> FALSE, eq |-> FALSE, gt |-> FALSE]

\* no promotion_chain call is outstanding
NoChain ==
    [op |-> "none", commit_ref |-> <<>>, parent_branch |-> None,
     skip_master |-> FALSE, err |-> "", val |-> <<>>]

\* no check_merge_forward call is outstanding
NoMerge ==
    [op |-> "none", unmerged |-> {}, err |-> "", pair |-> <<>>,
     queried |-> <<>>, pairs |-> <<>>]

\* no build_rpms call is outstanding
NoCopr ==
    [op |-> "none", builds |-> <<>>, version |-> <<>>, release |-> <<>>,
     srpm |-> FALSE, err |-> "", submitted |-> FALSE]

Init ==
    /\ held = <<>>
    /\ trail = <<>>
    /\ ret = Idle
    /\ remote = {}
    /\ chain = NoChain
    /\ merge = NoMerge
    /\ copr = NoCopr

\* evr = EVR(ver, rel, commit_hash)
New(ver, rel, commit_hash, buildtime) ==
    \E r \in {EVR_init(ver, rel, commit_hash, buildtime)} :
        /\ held = <<>>
        /\ ret.op = "none"
        /\ held' = IF r.err = "" THEN <<r.obj>> ELSE held
        /\ trail' = trail
        /\ ret' = [Idle EXCEPT !.op = "new", !.in = <<ver, rel, commit_hash>>,
                               !.err = r.err, !.obj = r.obj]
        /\ UNCHANGED <<remote, chain, merge, copr>>

\* evr.increment(**a): recv is the receiver before the call; the receiver as
\* the call leaves it stays held
Increment(a) ==
    /\ Len(held) = 1
    /\ ret.op = "none"
    /\ \E r \in {increment(held[1], a)} :
        /\ held' = <<r.recv>>
        /\ trail' = trail
        /\ ret' = [Idle EXCEPT !.op = "increment", !.args = a, !.err = r.err,
                               !.obj = r.obj, !.recv = held[1], !.same = r.same]
        /\ UNCHANGED <<remote, chain, merge, copr>>

\* evr = evr.increment(...): the caller keeps the instance the last increment
\* returned and drops the receiver
Rebind ==
    /\ ret.op = "increment"
    /\ ret.err = ""
    /\ Len(trail) < MaxGen
    /\ held' = <<ret.obj>>
    /\ trail' = Append(trail, ret.recv)
    /\ ret' = Idle
    /\ UNCHANGED <<remote, chain, merge, copr>>

\* the caller drops what the last call returned or raised
Discard ==
    /\ ret.op # "none"
    /\ UNCHANGED <<held, trail, remote, chain, merge, copr>>
    /\ ret' = Idle

\* EVR.fromstring(str(evr)), and the string form of the instance it returns
FromString ==
    /\ Len(held) = 1
    /\ ret.op = "none"
    /\ \E s \in {EVR_str(held[1])} : \E r \in {fromstring(s)} :
        /\ UNCHANGED <<held, trail, remote, chain, merge, copr>>
        /\ ret' = [Idle EXCEPT !.op = "fromstring", !.in = s, !.err = r.err,
                               !.obj = r.obj,
                               !.out = IF r.err = "" THEN EVR_str(r.obj) ELSE <<>>]

\* evr.python_version
PythonVersion ==
    /\ Len(held) = 1
    /\ ret.op = "none"
    /\ \E r \in {python_version(held[1])} :
        /\ UNCHANGED <<held, trail, remote, chain, merge, copr>>
        /\ ret' = [Idle EXCEPT !.op = "python_version", !.err = r.err,
                               !.recv = held[1], !.out = r.val]

Next ==
    \/ \E ver \in Versions, rel \in Releases, c \in Commits, t \in BuildTimes :
           New(ver, rel, c, t)
    \/ \E a \in IncrementArgs : Increment(a)
    \/ Rebind
    \/ Discard
    \/ FromString
    \/ PythonVersion

Spec == Init /\ [][Next]_vars

\* ------------------------------------------------ comparing two instances
\* the instances the constructor returns for the given version strings
Constructed(V) ==
    { r.obj : r \in { x \in { EVR_init(ver, rel, c, t) :
                                ver \in V, rel \in Releases, c \in Commits,
                                t \in BuildTimes } : x.err = "" } }

\* the instances one increment returns for the receivers in B
Incremented(B) ==
    { r.obj : r \in { x \in { increment(e, a) : e \in B, a \in IncrementArgs } :
                        x.err = "" } }

\* version strings of the instances that are compared
CmpVersions == { <<"1", ".", "2", ".", "3">>, <<"2", ":", "1", ".", "2", ".", "3">> }

\* the instances a caller can hold after a construction and at most one increment
Pool == Constructed(CmpVersions) \cup Incremented(Constructed(CmpVersions))

InitCmp ==
    /\ held \in { <<a, b>> : a \in Pool, b \in Pool }
    /\ trail = <<>>
    /\ ret = Idle
    /\ remote = {}
    /\ chain = NoChain
    /\ merge = NoMerge
    /\ copr = NoCopr

\* held[1] < held[2], held[1] == held[2], held[1] > held[2]
Compare ==
    /\ Len(held) = 2
    /\ ret.op = "none"
    /\ UNCHANGED <<held, trail, remote, chain, merge, copr>>
    /\ ret' = [Idle EXCEPT !.op = "compare",
                           !.lt = EVR_lt(held[1], held[2]),
                           !.eq = EVR_eq(held[1], held[2]),
                           !.gt = EVR_gt(held[1], held[2])]

\* low = EVR.lowest(), then low < held[1], low == held[1], low > held[1]
Lowest ==
    /\ Len(held) = 2
    /\ ret.op = "none"
    /\ UNCHANGED <<held, trail, remote, chain, merge, copr>>
    /\ \E r \in {lowest} :
        ret' = [Idle EXCEPT !.op = "lowest", !.err = r.err, !.obj = r.obj,
                            !.recv = held[1],
                            !.lt = r.err = "" /\ EVR_lt(r.obj, held[1]),
                            !.eq = r.err = "" /\ EVR_eq(r.obj, held[1]),
                            !.gt = r.err = "" /\ EVR_gt(r.obj, held[1])]

NextCmp ==
    \/ Compare
    \/ Lowest

SpecCmp == InitCmp /\ [][NextCmp]_vars

\* ------------------------------------------------------- the stage cycle
\* increments with stage=True and an accompanying version bump
CycleArgs ==
    { a \in IncrementArgs :
        /\ a.stage
        /\ a.major \/ a.minor \/ a.patch
        /\ ~a.release
        /\ a.next_stage = None }

\* the caller starts from a GA instance and keeps each result
InitCycle ==
    /\ held \in { <<g>> : g \in { e \in Constructed(Versions) : e.r_stage = None } }
    /\ trail = <<>>
    /\ ret = Idle
    /\ remote = {}
    /\ chain = NoChain
    /\ merge = NoMerge
    /\ copr = NoCopr

NextCycle ==
    \/ \E a \in CycleArgs : Increment(a)
    \/ Rebind
    \/ Discard

SpecCycle == InitCycle /\ [][NextCycle]_vars

\* ------------------------------------------------- parsing at construction
\* characters of the version strings handed to the constructor
VersionChars == { "0", "1", ".", ":", "x" }

\* every string of at most MaxVerLen of these characters
ParseVersions == UNION { [1..n -> VersionChars] : n \in 1..MaxVerLen }

\* release strings handed to the constructor
ParseReleases ==
    Releases \cup
    { <<"0", ".", "2", ".", "b", "e", "t", "a">>,
      <<"0", ".", "3", ".", "r", "c">>,
      <<"1", ".", "2", ".", "r", "c">>,
      <<"3">>,
      <<"1", "0">>,
      <<"1", ".">>,
      <<"1", "x">>,
      <<"1", ".", ".", "1">>,
      <<"1", ".", "1", ".">>,
      <<"0", ".", "1", ".", "a", "l", "p", "h", "a", ".">>,
      <<"x">>,
      <<"0", "x">>,
      <<"1", ".", "1", ".", "f", "o", "o">> }

\* commit hashes handed to the constructor
ParseCommits ==
    Commits \cup { <<"a", "b", "c">>, <<"a", "b", "c", "d", "e", "f", "0">> }

\* the constructor's arguments: every version with a plain release, and every
\* release and commit hash with two plain versions
ParseInputs ==
    { <<ver, <<"1">>, None>> : ver \in ParseVersions }
        \cup { <<ver, rel, c>> : ver \in { <<"1", ".", "2", ".", "3">>, <<"2", ":", "1", ".", "2">> },
                                rel \in ParseReleases, c \in ParseCommits }

InitParse == Init

NextParse == \E i \in ParseInputs, t \in BuildTimes : New(i[1], i[2], i[3], t)

SpecParse == InitParse /\ [][NextParse]_vars

\* ------------------------------------------------------ promotion chains
\* the lines git branch -r can print
RemoteLines ==
    { <<" ", " ", "o", "r", "i", "g", "i", "n", "/", "2", ".", "5", "-", "d", "e", "v">>,
      <<" ", " ", "o", "r", "i", "g", "i", "n", "/", "2", ".", "5", "-", "r", "e", "l", "e", "a", "s", "e">>,
      <<" ", " ", "o", "r", "i", "g", "i", "n", "/", "2", ".", "6", "-", "d", "e", "v">>,
      <<" ", " ", "o", "r", "i", "g", "i", "n", "/", "2", ".", "0", "6", "-", "d", "e", "v">>,
      <<" ", " ", "o", "r", "i", "g", "i", "n", "/", "2", ".", "7", "-", "r", "e", "l", "e", "a", "s", "e">>,
      <<" ", " ", "o", "r", "i", "g", "i", "n", "/", "2", ".", "1", "0", "-", "d", "e", "v">>,
      <<" ", " ", "o", "r", "i", "g", "i", "n", "/", "3", ".", "0", "-", "d", "e", "v">>,
      <<" ", " ", "o", "r", "i", "g", "i", "n", "/", "2", ".", "8", "-", "d", "e", "v", "e", "l">>,
      <<" ", " ", "o", "r", "i", "g", "i", "n", "/", "m", "a", "s", "t", "e", "r">> }

\* values of commit_ref: branches, an upstream name, a tag, names that hold
\* the pattern, and a name with trailing whitespace
CommitRefs ==
    { <<"m", "a", "s", "t", "e", "r">>,
      <<"2", ".", "5", "-", "d", "e", "v">>,
      <<"2", ".", "5", "-", "r", "e", "l", "e", "a", "s", "e">>,
      <<"2", ".", "6", "-", "d", "e", "v">>,
      <<"o", "r", "i", "g", "i", "n", "/", "2", ".", "5", "-", "d", "e", "v">>,
      <<"x", "2", ".", "5", "-", "d", "e", "v", "e", "l">>,
      <<"2", "x", "5", "-", "d", "e", "v">>,
      <<"v", "2", ".", "5", ".", "1">>,
      <<"2", ".", "5", "-", "d", "e", "v", " ">> }

\* values of parent_branch
ParentBranches ==
    { None,
      <<"2", ".", "5", "-", "d", "e", "v">>,
      <<"2", ".", "5", "-", "r", "e", "l", "e", "a", "s", "e">>,
      <<"v", "2", ".", "5", ".", "1">> }

InitChain ==
    /\ held = <<>>
    /\ trail = <<>>
    /\ ret = Idle
    /\ remote \in SUBSET RemoteLines
    /\ chain = NoChain
    /\ merge = NoMerge
    /\ copr = NoCopr

\* chain = promotion_chain(git_directory, commit_ref, parent_branch, skip_master)
PromotionChain(commit_ref, parent_branch, skip_master) ==
    /\ chain.op = "none"
    /\ \E r \in promotion_chain(remote, commit_ref, parent_branch, skip_master) :
        chain' = [op |-> "promotion_chain", commit_ref |-> commit_ref,
                  parent_branch |-> parent_branch, skip_master |-> skip_master,
                  err |-> r.err, val |-> r.val]
    /\ UNCHANGED <<held, trail, ret, remote, merge, copr>>

\* the caller is done with the chain, or with the error
DropChain ==
    /\ chain.op # "none"
    /\ chain' = NoChain
    /\ UNCHANGED <<held, trail, ret, remote, merge, copr>>

NextChain ==
    \/ \E c \in CommitRefs, p \in ParentBranches, k \in BOOLEAN : PromotionChain(c, p, k)
    \/ DropChain

SpecChain == InitChain /\ [][NextChain]_vars

\* ------------------------------------------------------------ properties
Numerics(e) == <<e.epoch, e.v_major, e.v_minor, e.v_patch, e.r_major, e.r_minor>>

\* lexicographic order of two tuples of the same length
LexLess(s, t) ==
    \E i \in 1..Len(s) : s[i] < t[i] /\ \A j \in 1..(i - 1) : s[j] = t[j]

ExactlyOne(p, q, r) == (p /\ ~q /\ ~r) \/ (~p /\ q /\ ~r) \/ (~p /\ ~q /\ r)

Named(e) == e.r_stage \in {alpha, beta, rc}

\* the instances the caller can reach in this state
Reachable ==
    { held[i] : i \in 1..Len(held) }
        \cup (IF ret.op \in {"new", "increment", "fromstring"} /\ ret.err = ""
              THEN {ret.obj} ELSE {})

\* C1: EVR comparison is a strict total order: of a<b, a==b, a>b exactly one
\* holds, a<b and b<a never both hold, and a<b and b<c imply a<c.
C1_StrictTotalOrder ==
    ret.op = "compare" =>
    \A i \in 1..Len(held), j \in 1..Len(held), k \in 1..Len(held) :
        /\ ExactlyOne(EVR_lt(held[i], held[j]), EVR_eq(held[i], held[j]),
                      EVR_gt(held[i], held[j]))
        /\ ~(EVR_lt(held[i], held[j]) /\ EVR_lt(held[j], held[i]))
        /\ (EVR_lt(held[i], held[j]) /\ EVR_lt(held[j], held[k]))
               => EVR_lt(held[i], held[k])

\* C2: when the numeric tuples of a and b differ, a < b holds exactly when a's
\* tuple precedes b's in lexicographic order.
C2_Lexicographic ==
    (ret.op = "compare" /\ Numerics(held[1]) # Numerics(held[2]))
        => (ret.lt <=> LexLess(Numerics(held[1]), Numerics(held[2])))

\* C3: for any non-empty increment request, the instance returned by
\* e.increment(...) compares strictly greater than e.
C3_IncrementMonotone ==
    (ret.op = "increment" /\ ret.err = "" /\ ret.args # NoArgs)
        => EVR_gt(ret.obj, ret.recv)

\* C4: starting from a GA instance, four successive increments with stage=True
\* and a version bump all succeed, pass through alpha, beta and rc in that
\* order, and end at GA with release_major one greater than at the start.
C4_StageCycle ==
    /\ (ret.op = "increment" /\ Len(trail) < 4) => ret.err = ""
    /\ Len(trail) = 1 => held[1].r_stage = alpha
    /\ Len(trail) = 2 => held[1].r_stage = beta
    /\ Len(trail) = 3 => held[1].r_stage = rc
    /\ Len(trail) = 4 => /\ held[1].r_stage = None
                         /\ held[1].r_major = trail[1].r_major + 1

\* C5: for every string s that str() produces for an instance reachable by
\* construction or by increment, EVR.fromstring(s) succeeds and
\* str(EVR.fromstring(s)) = s.
C5_RoundTrip ==
    ret.op = "fromstring" => (ret.err = "" /\ ret.out = ret.in)

\* C6: every reachable instance with stage alpha/beta/rc has release_major 0,
\* every one with no stage has release_major >= 1, and every nightly one has
\* release_major 0 and release_minor 0.
C6_DataModelInvariant ==
    \A e \in Reachable :
        /\ Named(e) => e.r_major = 0
        /\ e.r_stage = None => e.r_major >= 1
        /\ nightly_release(e) => (e.r_major = 0 /\ e.r_minor = 0)

\* C7: the constructor accepts a release with stage alpha/beta/rc when its
\* release major is 0 and rejects it with a validation error otherwise; it
\* accepts a release with no stage when its release major is >= 1 and rejects
\* it with a validation error when it is 0.
C7_ConstructionChecks ==
    (/\ ret.op = "new"
     /\ ret.in[2] # <<"n", "i", "g", "h", "t", "l", "y">>
     /\ EVR_VERSION_RE(ret.in[1]).ok
     /\ EVR_RELEASE_RE(ret.in[2]).ok)
        => LET m == EVR_RELEASE_RE(ret.in[2])
           IN  /\ (m.stage \in {alpha, beta, rc} /\ StrToInt(m.major) = 0)
                      => ret.err = ""
               /\ (m.stage \in {alpha, beta, rc} /\ StrToInt(m.major) # 0)
                      => ret.err = ValueError_major0
               /\ (m.stage = None /\ StrToInt(m.major) >= 1) => ret.err = ""
               /\ (m.stage = None /\ StrToInt(m.major) = 0)
                      => ret.err = ValueError_major1

\* C8: increment never mutates its receiver: when the call returns or raises,
\* every component of the receiver is what it was before the call, and an
\* instance returned is not the receiver.
C8_ReceiverUnchanged ==
    ret.op = "increment"
        => /\ held[1] = ret.recv
           /\ ret.err = "" => ~ret.same

C8_Witness ==
    /\ ret.op = "increment"
    /\ ret.err = ""
    /\ ret.args.minor
    /\ ret.obj.v_minor = ret.recv.v_minor + 1
    /\ held[1] = ret.recv

\* C9: increment(release=True), and increment(stage=True) on an rc instance,
\* return an instance whose release_major is the receiver's plus 1, whose
\* release_minor is 0 and whose stage is cleared, also without a version bump.
C9_FullRelease ==
    (/\ ret.op = "increment"
     /\ ret.args.next_stage = None
     /\ \/ ret.args.release /\ ~ret.args.stage
        \/ ret.args.stage /\ ret.recv.r_stage = rc)
        => /\ ret.err = ""
           /\ ret.obj.r_major = ret.recv.r_major + 1
           /\ ret.obj.r_minor = 0
           /\ ret.obj.r_stage = None

\* rank of a stage in the order nightly < alpha < beta < rc < GA
StageRank(e) ==
    IF e.r_stage = None THEN 4
    ELSE IF e.r_stage = rc THEN 3
    ELSE IF e.r_stage = beta THEN 2
    ELSE IF e.r_stage = alpha THEN 1
    ELSE 0

\* C10: when all six numeric components of two instances are equal, the stage
\* alone decides: GA is greater than any named or nightly stage, nightly is
\* less than any named stage, alpha < beta < rc, and equal stages compare equal.
C10_StageDecides ==
    (ret.op = "compare" /\ Numerics(held[1]) = Numerics(held[2]))
        => /\ StageRank(held[1]) < StageRank(held[2])
                  => (ret.lt /\ ~ret.eq /\ ~ret.gt)
           /\ StageRank(held[1]) > StageRank(held[2])
                  => (ret.gt /\ ~ret.eq /\ ~ret.lt)
           /\ held[1].r_stage = held[2].r_stage
                  => (ret.eq /\ ~ret.lt /\ ~ret.gt)

C10_Witness ==
    /\ ret.op = "compare"
    /\ Numerics(held[1]) = Numerics(held[2])
    /\ nightly_release(held[1])
    /\ held[2].r_stage = alpha
    /\ ret.lt

\* ------------------------------------------------- parsing and formatting
\* a non-empty string of digits
IsNumber(s) == Len(s) >= 1 /\ \A i \in 1..Len(s) : IsDigit(s[i])

\* the fields of s between the occurrences of sep
RECURSIVE Split(_, _)
Split(s, sep) ==
    IF \E i \in 1..Len(s) : s[i] = sep
    THEN LET i == CHOOSE k \in 1..Len(s) : s[k] = sep /\ \A j \in 1..(k - 1) : s[j] # sep
         IN  <<SubSeq(s, 1, i - 1)>> \o Split(SubSeq(s, i + 1, Len(s)), sep)
    ELSE <<s>>

\* s is written major.minor or major.minor.patch
PlainVersion(s) ==
    LET f == Split(s, ".")
    IN  Len(f) \in {2, 3} /\ \A i \in 1..Len(f) : IsNumber(f[i])

\* s is written [epoch:]major.minor[.patch]
WrittenVersion(s) ==
    LET p == Split(s, ":")
    IN  \/ PlainVersion(s)
        \/ Len(p) = 2 /\ IsNumber(p[1]) /\ PlainVersion(p[2])

\* s is written major[.minor][.stage], the stage one of alpha, beta, rc or a
\* nightly marker
WrittenRelease(s) ==
    LET f == Split(s, ".")
        stage(x) == x \in {alpha, beta, rc} \/ (Len(x) >= 2 /\ x[1] = "n")
    IN  \/ Len(f) = 1 /\ IsNumber(f[1])
        \/ Len(f) = 2 /\ IsNumber(f[1]) /\ (IsNumber(f[2]) \/ stage(f[2]))
        \/ Len(f) = 3 /\ IsNumber(f[1]) /\ IsNumber(f[2]) /\ stage(f[3])

\* C11: a version string written without an epoch as major.minor or
\* major.minor.patch, multi-digit numbers included, parses to epoch 0 and to
\* the written major, minor and patch, a missing patch being 0; a written
\* epoch is the part before ':'.
C11_VersionParsing ==
    (ret.op = "new" /\ ret.in[2] = <<"1">> /\ WrittenVersion(ret.in[1]))
        => LET p == Split(ret.in[1], ":")
               f == Split(p[Len(p)], ".")
           IN  /\ ret.err = ""
               /\ ret.obj.epoch = IF Len(p) = 2 THEN StrToInt(p[1]) ELSE 0
               /\ ret.obj.v_major = StrToInt(f[1])
               /\ ret.obj.v_minor = StrToInt(f[2])
               /\ ret.obj.v_patch = IF Len(f) = 3 THEN StrToInt(f[3]) ELSE 0

\* C12: construction fails and yields no EVR whenever the version string is
\* not entirely of the form [epoch:]major.minor[.patch] or the release string
\* is not entirely of the form major[.minor][.stage]; a non-matching remainder
\* is never dropped.
C12_MalformedRejected ==
    (/\ ret.op = "new"
     /\ ret.in[2] # <<"n", "i", "g", "h", "t", "l", "y">>
     /\ ~WrittenVersion(ret.in[1]) \/ ~WrittenRelease(ret.in[2]))
        => (ret.err # "" /\ held = <<>>)

\* C13: with release "nightly", construction without a commit hash fails; with
\* a commit hash it succeeds, the release is 0.0.n<timestamp>git<first 7
\* characters of the commit>, release_major and release_minor are 0, the stage
\* begins with 'n' and nightly_release is true.
C13_NightlyConstruction ==
    (/\ ret.op = "new"
     /\ ret.in[2] = <<"n", "i", "g", "h", "t", "l", "y">>
     /\ WrittenVersion(ret.in[1]))
        => IF ret.in[3] = None
           THEN ret.err = ValueError_nightly /\ held = <<>>
           ELSE /\ ret.err = ""
                /\ held = <<ret.obj>>
                /\ \E t \in BuildTimes :
                     release(ret.obj) =
                        <<"0", ".", "0", ".", "n">> \o t \o <<"g", "i", "t">>
                            \o SubSeq(ret.in[3], 1,
                                      IF Len(ret.in[3]) < 7 THEN Len(ret.in[3]) ELSE 7)
                /\ ret.obj.r_major = 0
                /\ ret.obj.r_minor = 0
                /\ ret.obj.r_stage[1] = "n"
                /\ nightly_release(ret.obj)

C13_Witness ==
    /\ ret.op = "new"
    /\ ret.in[2] = <<"n", "i", "g", "h", "t", "l", "y">>
    /\ Len(ret.in[3]) > 7
    /\ ret.err = ""
    /\ Len(held) = 1
    /\ nightly_release(held[1])
    /\ Len(held[1].r_stage) = 23

\* the version of e as major.minor[.patch], a zero patch left out, after epoch!
PublicBase(e) ==
    (IF e.epoch # 0 THEN IntToStr(e.epoch) \o <<"!">> ELSE <<>>)
        \o IntToStr(e.v_major) \o <<".">> \o IntToStr(e.v_minor)
        \o (IF e.v_patch # 0 THEN <<".">> \o IntToStr(e.v_patch) ELSE <<>>)

\* C14: the public version is the version with ':' replaced by '!' and a zero
\* patch dropped, followed by a/b/rc and release_minor for alpha/beta/rc, by
\* dev and digits only for a nightly stage, by .post<release_major> for a GA
\* release with release_major > 1, and by nothing when release_major = 1.
C14_PublicVersion ==
    ret.op = "python_version"
        => LET e == ret.recv
               b == PublicBase(e)
           IN  /\ e.r_stage = alpha => ret.out = b \o <<"a">> \o IntToStr(e.r_minor)
               /\ e.r_stage = beta => ret.out = b \o <<"b">> \o IntToStr(e.r_minor)
               /\ e.r_stage = rc => ret.out = b \o <<"r", "c">> \o IntToStr(e.r_minor)
               /\ nightly_release(e)
                    => /\ Len(ret.out) > Len(b) + 3
                       /\ SubSeq(ret.out, 1, Len(b) + 3) = b \o <<"d", "e", "v">>
                       /\ IsNumber(SubSeq(ret.out, Len(b) + 4, Len(ret.out)))
               /\ (e.r_stage = None /\ e.r_major > 1)
                    => ret.out = b \o <<".", "p", "o", "s", "t">> \o IntToStr(e.r_major)
               /\ (e.r_stage = None /\ e.r_major = 1) => ret.out = b

\* ------------------------------------------------------ builds in Copr
\* the platform (dist) and the package that is built
Platform == <<"f", "c", "2", "4">>

PackageName == <<"p", "u", "l", "p">>

\* the builds the Copr project can list
CoprBuildPool ==
    [state : {"succeeded", "failed"},
     package_version : { <<"1", ".", "2", ".", "3", "-", "1", ".", "f", "c", "2", "4">>, <<"1", ".", "2", ".", "4", "-", "1", ".", "f", "c", "2", "4">>, <<"1", ".", "2", ".", "3", "-", "1", ".", "e", "l", "7">> },
     package_name : { <<"p", "u", "l", "p">> }]
        \cup { [state |-> "succeeded", package_version |-> <<"1", ".", "2", ".", "4", "-", "1", ".", "f", "c", "2", "4">>,
                package_name |-> <<"o", "t", "h", "e", "r">>] }

CoprBuilds == UNION { [1..n -> CoprBuildPool] : n \in 0..2 }

PackageVersions == { <<"1", ".", "2", ".", "3">>, <<"1", ".", "2", ".", "4">> }

PackageReleases == { <<"1">> }

InitCopr == Init

\* build_rpms(config_path, srpm_dir, use_copr=True)
BuildRpms(builds, ver, rel, srpm) ==
    /\ copr.op = "none"
    /\ \E r \in {build_rpms(builds, Platform, PackageName, ver, rel, srpm)} :
        copr' = [op |-> "build_rpms", builds |-> builds, version |-> ver,
                 release |-> rel, srpm |-> srpm, err |-> r.err,
                 submitted |-> r.submitted]
    /\ UNCHANGED <<held, trail, ret, remote, chain, merge>>

\* the caller is done with the outcome
DropCopr ==
    /\ copr.op # "none"
    /\ copr' = NoCopr
    /\ UNCHANGED <<held, trail, ret, remote, chain, merge>>

NextCopr ==
    \/ \E b \in CoprBuilds, ver \in PackageVersions, rel \in PackageReleases,
           srpm \in BOOLEAN : BuildRpms(b, ver, rel, srpm)
    \/ DropCopr

SpecCopr == InitCopr /\ [][NextCopr]_vars

\* ------------------------------------------------------ checking a branch
\* the remote branches of the repository that is checked
MergeLines ==
    { <<" ", " ", "o", "r", "i", "g", "i", "n", "/", "2", ".", "6", "-", "d", "e", "v">>,
      <<" ", " ", "o", "r", "i", "g", "i", "n", "/", "2", ".", "1", "0", "-", "d", "e", "v">>,
      <<" ", " ", "o", "r", "i", "g", "i", "n", "/", "2", ".", "5", "-", "d", "e", "v">> }

InitMerge ==
    /\ held = <<>>
    /\ trail = <<>>
    /\ ret = Idle
    /\ remote \in SUBSET MergeLines
    /\ chain = NoChain
    /\ merge = NoMerge
    /\ copr = NoCopr

\* the pairs of different branches that follow each other in the chain
Hops(c) == { p \in { <<c[i], c[i + 1]>> : i \in 1..(Len(c) - 1) } : p[1] # p[2] }

\* check_merge_forward(git_directory, chain) as check_branch_promoted calls it
\* on the chain promotion_chain returned; U tells for which (src, dest) git
\* log prints commits
CheckMergeForward(U) ==
    /\ chain.op = "promotion_chain"
    /\ chain.err = ""
    /\ merge.op = "none"
    /\ \E r \in {check_merge_forward(U, chain.val)} :
        merge' = [op |-> "check_merge_forward", unmerged |-> U, err |-> r.err,
                  pair |-> r.pair, queried |-> r.queried, pairs |-> r.pairs]
    /\ UNCHANGED <<held, trail, ret, remote, chain, copr>>

\* the command ends
DropMerge ==
    /\ merge.op # "none" \/ (chain.op # "none" /\ chain.err # "")
    /\ chain' = NoChain
    /\ merge' = NoMerge
    /\ UNCHANGED <<held, trail, ret, remote, copr>>

NextMerge ==
    \/ \E c \in CommitRefs, p \in ParentBranches, k \in BOOLEAN : PromotionChain(c, p, k)
    \/ \E U \in SUBSET Hops(chain.val) : CheckMergeForward(U)
    \/ DropMerge

SpecMerge == InitMerge /\ [][NextMerge]_vars

\* ------------------------------------------------------ promotion chains
\* s is written <major>.<minor>-dev or <major>.<minor>-release
StrictBranch(s) ==
    LET d == Split(s, "-")
        v(x) == LET f == Split(x, ".") IN Len(f) = 2 /\ IsNumber(f[1]) /\ IsNumber(f[2])
    IN  Len(d) = 2 /\ d[2] \in { <<"d", "e", "v">>, <<"r", "e", "l", "e", "a", "s", "e">> } /\ v(d[1])

\* the version and the stream of a name written that way
BranchVersion(s) == Split(s, "-")[1]

BranchStream(s) == Split(s, "-")[2]

VersionMajor(v) == StrToInt(Split(v, ".")[1])

VersionMinor(v) == StrToInt(Split(v, ".")[2])

\* the entry without the remote name in front of it
Unqualified(e) == IF HasAt(e, 1, <<"o", "r", "i", "g", "i", "n", "/">>) THEN SubSeq(e, 8, Len(e)) ELSE e

\* the branch is among the lines of git branch -r
Known(e) == (<<" ", " ">> \o e) \in remote

\* the reference the chain starts from, and the number of entries the caller gave
StartRef == IF Truthy(chain.parent_branch) THEN chain.parent_branch ELSE Strip(chain.commit_ref)

Given == IF Truthy(chain.parent_branch) THEN 2 ELSE 1

Returned == chain.op = "promotion_chain" /\ chain.err = ""

\* C15: a returned chain holds no <version>-dev entry (a forward target or
\* the sibling dev branch of a release start) that is absent from the known
\* remote branches; a missing one aborts the call.
C15_MissingDevAborts ==
    (Returned /\ Strip(chain.commit_ref) # <<"m", "a", "s", "t", "e", "r">>)
        => \A i \in (Given + 1)..Len(chain.val) :
               chain.val[i] # <<"o", "r", "i", "g", "i", "n", "/">> \o <<"m", "a", "s", "t", "e", "r">> => Known(chain.val[i])

\* C16: for a starting reference other than master and no parent branch, the
\* first entry is the starting reference, a release branch is followed by its
\* sibling <version>-dev, the last entry is master if and only if skip_master
\* is false, and with skip_master the chain holds no master entry.
C16_ChainShape ==
    (Returned /\ chain.parent_branch = None /\ Strip(chain.commit_ref) # <<"m", "a", "s", "t", "e", "r">>)
        => /\ chain.val[1] = <<"o", "r", "i", "g", "i", "n", "/">> \o Strip(chain.commit_ref)
           /\ (StrictBranch(StartRef) /\ BranchStream(StartRef) = <<"r", "e", "l", "e", "a", "s", "e">>)
                => /\ Len(chain.val) >= 2
                   /\ chain.val[2] = <<"o", "r", "i", "g", "i", "n", "/">> \o BranchVersion(StartRef) \o <<"-", "d", "e", "v">>
           /\ chain.val[Len(chain.val)] = <<"o", "r", "i", "g", "i", "n", "/">> \o <<"m", "a", "s", "t", "e", "r">> <=> ~chain.skip_master
           /\ chain.skip_master
                => \A i \in 1..Len(chain.val) : chain.val[i] # <<"o", "r", "i", "g", "i", "n", "/">> \o <<"m", "a", "s", "t", "e", "r">>

C16_Witness ==
    /\ Returned
    /\ chain.commit_ref = <<"2", ".", "5", "-", "r", "e", "l", "e", "a", "s", "e">>
    /\ chain.parent_branch = None
    /\ ~chain.skip_master
    /\ chain.val = << <<"o", "r", "i", "g", "i", "n", "/">> \o <<"2", ".", "5", "-", "r", "e", "l", "e", "a", "s", "e">>, <<"o", "r", "i", "g", "i", "n", "/">> \o <<"2", ".", "5", "-", "d", "e", "v">>, <<"o", "r", "i", "g", "i", "n", "/">> \o <<"2", ".", "6", "-", "d", "e", "v">>,
                      <<"o", "r", "i", "g", "i", "n", "/">> \o <<"2", ".", "1", "0", "-", "d", "e", "v">>, <<"o", "r", "i", "g", "i", "n", "/">> \o <<"m", "a", "s", "t", "e", "r">> >>

C18_InvalidStartRejected ==
    (/\ chain.op = "promotion_chain"
     /\ Strip(chain.commit_ref) # <<"m", "a", "s", "t", "e", "r">>
     /\ ~StrictBranch(StartRef))
        => (chain.err # "" /\ chain.val = <<>>)

\* C19: every entry of a returned chain is qualified by the remote name
\* exactly once, origin/<branch>, for every starting reference, master and an
\* upstream name included.
C19_QualifiedOnce ==
    Returned
        => \A i \in 1..Len(chain.val) :
               /\ HasAt(chain.val[i], 1, <<"o", "r", "i", "g", "i", "n", "/">>)
               /\ ~HasAt(chain.val[i], 8, <<"o", "r", "i", "g", "i", "n", "/">>)

\* C20: no branch name occurs twice in a returned chain, for every starting
\* reference, parent branch and set of known branches.
C20_NoDuplicates ==
    Returned
        => \A i, j \in 1..Len(chain.val) : i # j => chain.val[i] # chain.val[j]

\* ------------------------------------------------- components under increment
\* the last call was an increment that returned an instance
Incremental == ret.op = "increment" /\ ret.err = ""

AnyVersion(a) == a.major \/ a.minor \/ a.patch

\* the stage the increment moves to: the one passed in, else the one after
\* the receiver's when stage is requested, else the receiver's own
StageAfter(recv, a) ==
    IF a.next_stage # None THEN a.next_stage
    ELSE IF a.stage THEN next_stage(recv).val
    ELSE IF a.release THEN None
    ELSE recv.r_stage

\* C24: an increment with any of major, minor or patch resets the release:
\* to (1, 0, no stage) if the increment is also a release (release=True or
\* the next stage is GA), to (0, 1, next stage) otherwise.
C24_ReleaseReset ==
    (Incremental /\ AnyVersion(ret.args))
        => IF ret.args.release \/ StageAfter(ret.recv, ret.args) = None
           THEN /\ ret.obj.r_major = 1
                /\ ret.obj.r_minor = 0
                /\ ret.obj.r_stage = None
           ELSE /\ ret.obj.r_major = 0
                /\ ret.obj.r_minor = 1
                /\ ret.obj.r_stage = StageAfter(ret.recv, ret.args)

\* C25: an increment with none of major, minor, patch and a next stage that
\* is not GA changes one numeric component only, release_minor, by exactly 1;
\* the stage changes, to the next stage, only if stage was requested.
C25_StageOnlyFrame ==
    (Incremental /\ ~AnyVersion(ret.args) /\ StageAfter(ret.recv, ret.args) # None)
        => /\ ret.obj.epoch = ret.recv.epoch
           /\ ret.obj.v_major = ret.recv.v_major
           /\ ret.obj.v_minor = ret.recv.v_minor
           /\ ret.obj.v_patch = ret.recv.v_patch
           /\ ret.obj.r_major = ret.recv.r_major
           /\ ret.obj.r_minor = ret.recv.r_minor + 1
           /\ ret.obj.r_stage = IF ret.args.stage
                                THEN StageAfter(ret.recv, ret.args)
                                ELSE ret.recv.r_stage

\* C26: a major increment adds 1 to version_major and zeroes minor and patch;
\* a minor increment adds 1 to version_minor, zeroes patch and keeps major; a
\* patch increment adds 1 to version_patch and keeps major and minor; no
\* increment changes the epoch.
C26_VersionComponents ==
    Incremental
        => /\ ret.obj.epoch = ret.recv.epoch
           /\ ret.args.major
                => /\ ret.obj.v_major = ret.recv.v_major + 1
                   /\ ret.obj.v_minor = 0
                   /\ ret.obj.v_patch = 0
           /\ (~ret.args.major /\ ret.args.minor)
                => /\ ret.obj.v_major = ret.recv.v_major
                   /\ ret.obj.v_minor = ret.recv.v_minor + 1
                   /\ ret.obj.v_patch = 0
           /\ (~ret.args.major /\ ~ret.args.minor /\ ret.args.patch)
                => /\ ret.obj.v_major = ret.recv.v_major
                   /\ ret.obj.v_minor = ret.recv.v_minor
                   /\ ret.obj.v_patch = ret.recv.v_patch + 1

\* ------------------------------------------------- scanning for the targets
\* the line names a branch written exactly origin/<major>.<minor>-dev|release
ExactLine(l) == StrictBranch(Unqualified(Strip(l)))

\* the position of the first forward target in a returned chain
FirstTarget == Given + (IF branch_regex(StartRef).stream = "release" THEN 2 ELSE 1)

\* the positions of the forward targets
TargetPositions ==
    { i \in FirstTarget..Len(chain.val) : chain.val[i] # <<"o", "r", "i", "g", "i", "n", "/">> \o <<"m", "a", "s", "t", "e", "r">> }

TargetVersion(i) == BranchVersion(Unqualified(chain.val[i]))

\* major then minor, as numbers
NumericLess(v, w) ==
    \/ VersionMajor(v) < VersionMajor(w)
    \/ VersionMajor(v) = VersionMajor(w) /\ VersionMinor(v) < VersionMinor(w)

\* C22: known branch names that are not written exactly
\* <major>.<minor>-dev|release are ignored: the call returns what it returns
\* when those names are removed from the known set.
C22_OtherNamesIgnored ==
    (chain.op = "promotion_chain")
        => [err |-> chain.err, val |-> chain.val]
              \in promotion_chain({ l \in remote : ExactLine(l) }, chain.commit_ref,
                                  chain.parent_branch, chain.skip_master)

\* C23: only dev branches are collected: every forward target <w>-dev of a
\* returned chain is a branch of the known set; a version known only as
\* <w>-release adds no hop.
C23_OnlyDevCollected ==
    (Returned /\ Strip(chain.commit_ref) # <<"m", "a", "s", "t", "e", "r">>)
        => \A i \in TargetPositions : Known(chain.val[i])

\* C27: the forward targets come in strictly ascending order of version,
\* major then minor compared as numbers, whatever the order of the listing.
C27_TargetsAscending ==
    (Returned /\ Strip(chain.commit_ref) # <<"m", "a", "s", "t", "e", "r">>)
        => \A i, j \in TargetPositions :
               i < j => NumericLess(TargetVersion(i), TargetVersion(j))

\* the forward targets never descend: no target has a lower version than one
\* before it, and targets of different version are strictly ascending
C27_TargetsNeverDescend ==
    (Returned /\ Strip(chain.commit_ref) # <<"m", "a", "s", "t", "e", "r">>)
        => \A i, j \in TargetPositions :
               i < j => ~NumericLess(TargetVersion(j), TargetVersion(i))

C27_Witness ==
    /\ Returned
    /\ chain.commit_ref = <<"2", ".", "5", "-", "d", "e", "v">>
    /\ chain.parent_branch = None
    /\ chain.val = << <<"o", "r", "i", "g", "i", "n", "/">> \o <<"2", ".", "5", "-", "d", "e", "v">>, <<"o", "r", "i", "g", "i", "n", "/">> \o <<"2", ".", "6", "-", "d", "e", "v">>, <<"o", "r", "i", "g", "i", "n", "/">> \o <<"2", ".", "1", "0", "-", "d", "e", "v">>,
                      <<"o", "r", "i", "g", "i", "n", "/">> \o <<"m", "a", "s", "t", "e", "r">> >>

\* ------------------------------------------------------------ the lowest EVR
\* C30: EVR.lowest() returns an instance without raising, and that instance
\* compares less than or equal to every instance that can be constructed.
C30_LowestIsLeast ==
    ret.op = "lowest" => (ret.err = "" /\ (ret.lt \/ ret.eq))

\* ------------------------------------------------------- promotion pairs
Checked == merge.op = "check_merge_forward"

\* the i-th hop of the chain that was checked
Hop(i) == <<chain.val[i], chain.val[i + 1]>>

\* the hops whose query is not empty
UnmergedHops == { i \in 1..(Len(chain.val) - 1) : Hop(i) \in merge.unmerged }

\* C21: check_merge_forward returns successfully if and only if the query is
\* empty for every consecutive pair of the chain; otherwise it raises, naming
\* the first pair in chain order whose query is not empty, and no later pair
\* is queried.
C21_FirstViolationRaised ==
    Checked
        => /\ merge.err = "" <=> UnmergedHops = {}
           /\ \A i \in UnmergedHops :
                (\A j \in UnmergedHops : i <= j)
                    => /\ merge.err = RuntimeError_unmerged
                       /\ merge.pair = Hop(i)
                       /\ merge.queried = [j \in 1..i |-> Hop(j)]

C21_Witness ==
    /\ Checked
    /\ Len(chain.val) = 4
    /\ merge.unmerged = { Hop(2), Hop(3) }
    /\ merge.pair = Hop(2)
    /\ Len(merge.queried) = 2

\* C28: generate_promotion_pairs on a chain of n >= 1 entries yields the n-1
\* consecutive pairs (chain[i], chain[i+1]) in chain order, each once; for a
\* one-entry chain it yields no pair and check_merge_forward succeeds without
\* any query.
C28_ConsecutivePairs ==
    (Checked /\ Len(chain.val) >= 1)
        => /\ merge.pairs = [i \in 1..(Len(chain.val) - 1) |-> Hop(i)]
           /\ Len(chain.val) = 1 => (merge.err = "" /\ merge.queried = <<>>)

C28_Witness ==
    /\ Checked
    /\ Len(chain.val) = 3
    /\ merge.pairs = << Hop(1), Hop(2) >>

\* ------------------------------------------------------ duplicate builds
\* the EVR strings of the succeeded builds of the package for the platform
SucceededBefore ==
    { SubSeq(b.package_version, 1,
             LastIndexOf(b.package_version, ".", Len(b.package_version)) - 1) :
        b \in { copr.builds[i] : i \in { j \in 1..Len(copr.builds) :
                  /\ copr.builds[j].state = "succeeded"
                  /\ copr.builds[j].package_name = PackageName
                  /\ SubSeq(copr.builds[j].package_version,
                            LastIndexOf(copr.builds[j].package_version, ".",
                                        Len(copr.builds[j].package_version)) + 1,
                            Len(copr.builds[j].package_version)) = Platform } } }

====
